---- MODULE Spec2Model ----
(***************************************************************************)
(* Enterprise (src/src/main.c): configuration resolution and boot hand-off *)
(* of an EFI chain-loader.  ReadConfigurationFile folds the configuration  *)
(* entries into a LinuxBootOption; efi_main runs the pre-flight checks and *)
(* opens the menu; BootLinuxWithOptions persists the hand-off variables    *)
(* and chain-loads boot.efi.                                               *)
(***************************************************************************)
EXTENDS Integers, Sequences, FiniteSets, TLC

\* Longest configuration (number of key/value entries) explored.
MaxEntries == 2

(***************************************************************************)
(* Pointers and status codes.  A CHAR8* is modelled by the string it       *)
(* points to, by NULL, or by Uninit (an indeterminate pointer).            *)
(***************************************************************************)
NULL == "<NULL>"
Uninit == "<uninit>"
Garbage == "<garbage>"

EFI_SUCCESS == "EFI_SUCCESS"
EFI_LOAD_ERROR == "EFI_LOAD_ERROR"
EFI_ERROR_STATUS == "EFI_ERROR"

\* Is p a pointer to a readable NUL-terminated string?
IsString(p) == p \notin {NULL, Uninit, Garbage}

(***************************************************************************)
(* Configuration inputs.                                                   *)
(***************************************************************************)
FamilyNames == {"Debian", "Ubuntu", "Mint", "Arch", "Fedora", "debian"}

Entries ==
    [key : {"family"}, value : FamilyNames]
    \cup [key : {"kernel"}, value : {"/custom/vmlinuz", ""}]
    \cup [key : {"initrd"}, value : {"/custom/initrd.gz", ""}]
    \cup [key : {"root"}, value : {"custom"}]
    \cup [key : {"title", "Family"}, value : {"x"}]

EntrySeqs == UNION {[1..n -> Entries] : n \in 0..MaxEntries}

\* The user's parameter string: its CHAR16 code units and the text they spell.
ParamChoices ==
    { [wide |-> <<>>, text |-> ""],
      [wide |-> <<113>>, text |-> "q"],
      [wide |-> <<114, 111>>, text |-> "ro"] }

(***************************************************************************)
(* Console output and firmware calls are recorded in order, in one log.    *)
(***************************************************************************)
Ev(o, g, n, v, s) == [op |-> o, guid |-> g, name |-> n, value |-> v, status |-> s]

\* Print / DisplayErrorText / DisplayColoredText of message m about a.
Msg(m, a) == Ev("Print", "", m, a, "")

\* Any other firmware call.
Call(o, s) == Ev(o, "", "", "", s)

(***************************************************************************)
(* DistributionCatalog.                                                    *)
(***************************************************************************)
\* Mutant: Mint is resolved with the Debian (live) layout.
KernelLocationMintAsDebian(name, boot_folder) ==
    IF name = "Debian" \/ name = "Mint"
    THEN [ret |-> "/live/vmlinuz", boot_folder |-> "live"]
    ELSE IF name = "Ubuntu"
    THEN [ret |-> "/casper/vmlinuz", boot_folder |-> "casper"]
    ELSE [ret |-> "", boot_folder |-> boot_folder]

\* Returns the kernel path; boot_folder is the OUT parameter, given its value
\* before the call and holding its value after it.
KernelLocationForDistributionName(name, boot_folder) ==
    IF name = "Debian"
    THEN [ret |-> "/live/vmlinuz", boot_folder |-> "live"]
    ELSE IF name = "Ubuntu" \/ name = "Mint"
    THEN [ret |-> "/casper/vmlinuz", boot_folder |-> "casper"]
    ELSE [ret |-> "", boot_folder |-> boot_folder]

InitRDLocationForDistributionName(name) ==
    IF name = "Debian"
    THEN "/live/initrd.img"
    ELSE IF name = "Ubuntu" \/ name = "Mint"
    THEN "/casper/initrd.lz"
    ELSE ""

(***************************************************************************)
(* ConfigParser (utils.c, not part of main.c): one pair per advance, the   *)
(* cursor moving past the consumed pair, FALSE on exhaustion.              *)
(***************************************************************************)
GetConfigurationKeyAndValue(contents, position) ==
    IF position < Len(contents)
    THEN [ok |-> TRUE, key |-> contents[position + 1].key,
          value |-> contents[position + 1].value, position |-> position + 1]
    ELSE [ok |-> FALSE, key |-> NULL, value |-> NULL, position |-> position]

(***************************************************************************)
(* BootOptionBuilder: ReadConfigurationFile.                               *)
(***************************************************************************)
\* AllocateZeroPool(sizeof(LinuxBootOption))
ZeroBootOption ==
    [distro_family |-> NULL, kernel_path |-> NULL,
     initrd_path |-> NULL, boot_folder |-> NULL]

\* Mutant: an explicit kernel entry does not override a path already set.
ApplyEntryKeepsFirstKernel(st, key, value) ==
    IF key = "family"
    THEN LET k == KernelLocationForDistributionName(value, st.boot_folder)
             i == InitRDLocationForDistributionName(value)
             bo == [distro_family |-> value, kernel_path |-> k.ret,
                    initrd_path |-> i, boot_folder |-> k.boot_folder]
         IN  IF k.ret = "" \/ i = ""
             THEN [st EXCEPT !.boot_options = bo, !.boot_folder = k.boot_folder,
                             !.messages = Append(@, Msg("not supported", value)),
                             !.released = TRUE, !.ret = NULL, !.returned = TRUE]
             ELSE [st EXCEPT !.boot_options = bo, !.boot_folder = k.boot_folder]
    ELSE IF key = "kernel"
    THEN IF st.boot_options.kernel_path = NULL
         THEN [st EXCEPT !.boot_options.kernel_path = value]
         ELSE st
    ELSE IF key = "initrd"
    THEN [st EXCEPT !.boot_options.initrd_path = value]
    ELSE IF key = "root"
    THEN [st EXCEPT !.boot_options.boot_folder = value]
    ELSE [st EXCEPT !.messages = Append(@, Msg("unrecognized option", key))]

\* Mutant: an unsupported family is reported but the fold goes on.
ApplyEntryNoAbort(st, key, value) ==
    IF key = "family"
    THEN LET k == KernelLocationForDistributionName(value, st.boot_folder)
             i == InitRDLocationForDistributionName(value)
             bo == [distro_family |-> value, kernel_path |-> k.ret,
                    initrd_path |-> i, boot_folder |-> k.boot_folder]
         IN  IF k.ret = "" \/ i = ""
             THEN [st EXCEPT !.boot_options = bo, !.boot_folder = k.boot_folder,
                             !.messages = Append(@, Msg("not supported", value))]
             ELSE [st EXCEPT !.boot_options = bo, !.boot_folder = k.boot_folder]
    ELSE IF key = "kernel"
    THEN [st EXCEPT !.boot_options.kernel_path = value]
    ELSE IF key = "initrd"
    THEN [st EXCEPT !.boot_options.initrd_path = value]
    ELSE IF key = "root"
    THEN [st EXCEPT !.boot_options.boot_folder = value]
    ELSE [st EXCEPT !.messages = Append(@, Msg("unrecognized option", key))]

\* Mutant: keys are matched without regard to case.
ApplyEntryCaseInsensitive(st, key, value) ==
    IF key \in {"family", "Family"}
    THEN LET k == KernelLocationForDistributionName(value, st.boot_folder)
             i == InitRDLocationForDistributionName(value)
             bo == [distro_family |-> value, kernel_path |-> k.ret,
                    initrd_path |-> i, boot_folder |-> k.boot_folder]
         IN  IF k.ret = "" \/ i = ""
             THEN [st EXCEPT !.boot_options = bo, !.boot_folder = k.boot_folder,
                             !.messages = Append(@, Msg("not supported", value)),
                             !.released = TRUE, !.ret = NULL, !.returned = TRUE]
             ELSE [st EXCEPT !.boot_options = bo, !.boot_folder = k.boot_folder]
    ELSE IF key = "kernel"
    THEN [st EXCEPT !.boot_options.kernel_path = value]
    ELSE IF key = "initrd"
    THEN [st EXCEPT !.boot_options.initrd_path = value]
    ELSE IF key = "root"
    THEN [st EXCEPT !.boot_options.boot_folder = value]
    ELSE [st EXCEPT !.messages = Append(@, Msg("unrecognized option", key))]

\* The body of the while loop for one (key, value) pair.  st holds the
\* function's locals: boot_options (the record), boot_folder (the local the
\* catalog writes through), the messages printed, and, once it has returned,
\* the returned pointer and whether the record was released.
ApplyEntry(st, key, value) ==
    IF key = "family"
    THEN LET k == KernelLocationForDistributionName(value, st.boot_folder)
             i == InitRDLocationForDistributionName(value)
             bo == [distro_family |-> value, kernel_path |-> k.ret,
                    initrd_path |-> i, boot_folder |-> k.boot_folder]
         IN  IF k.ret = "" \/ i = ""
             THEN [st EXCEPT !.boot_options = bo, !.boot_folder = k.boot_folder,
                             !.messages = Append(@, Msg("not supported", value)),
                             !.released = TRUE, !.ret = NULL, !.returned = TRUE]
             ELSE [st EXCEPT !.boot_options = bo, !.boot_folder = k.boot_folder]
    ELSE IF key = "kernel"
    THEN [st EXCEPT !.boot_options.kernel_path = value]
    ELSE IF key = "initrd"
    THEN [st EXCEPT !.boot_options.initrd_path = value]
    ELSE IF key = "root"
    THEN [st EXCEPT !.boot_options.boot_folder = value]
    ELSE [st EXCEPT !.messages = Append(@, Msg("unrecognized option", key))]

\* while (GetConfigurationKeyAndValue(...)) { ... }  return boot_options;
RECURSIVE ConfigLoop(_, _)
ConfigLoop(contents, st) ==
    LET kv == GetConfigurationKeyAndValue(contents, st.position)
    IN  IF ~kv.ok
        THEN [st EXCEPT !.ret = "boot_options", !.returned = TRUE]
        ELSE LET st1 == ApplyEntry([st EXCEPT !.position = kv.position],
                                   kv.key, kv.value)
             IN  IF st1.returned THEN st1 ELSE ConfigLoop(contents, st1)

\* contents is what the parser finds behind the `contents` pointer: the
\* file's entries when FileRead read them, anything when read_bytes = 0 and
\* the pointer was never assigned.
ReadConfigurationFile(contents, read_bytes) ==
    ConfigLoop(contents,
        [boot_options |-> ZeroBootOption, boot_folder |-> Uninit, position |-> 0,
         messages |-> IF read_bytes = 0
                      THEN <<Msg("couldn't read configuration", "")>>
                      ELSE <<>>,
         released |-> FALSE, ret |-> Uninit, returned |-> FALSE])

\* No call made yet.
NoCall ==
    [boot_options |-> ZeroBootOption, boot_folder |-> Uninit, position |-> 0,
     messages |-> <<>>, released |-> FALSE, ret |-> Uninit, returned |-> FALSE]

(***************************************************************************)
(* State.                                                                  *)
(***************************************************************************)
VARIABLES
    cfgPresent,     \* \efi\boot\.MLUL-Live-USB exists
    bootPresent,    \* \efi\boot\boot.efi exists
    isoPresent,     \* \efi\boot\boot.iso exists
    casperPresent,  \* \casper-rw exists
    read_bytes,     \* what FileRead returns for the configuration file
    contents,       \* the entries the parser finds behind `contents`
    params,         \* the parameter string handed to BootLinuxWithOptions
    pc,             \* position of the running function
    rcf,            \* locals of the latest ReadConfigurationFile call
    can_continue,   \* efi_main's local
    result,         \* efi_main's local (a LinuxBootOption pointer)
    boot_params,    \* BootLinuxWithOptions' local (a LinuxBootOption pointer)
    events,         \* messages shown and firmware calls made, in order
    nvram,          \* the firmware variable store
    menuInvoked,    \* DisplayMenu was called
    ret             \* status returned by the running function

vars == <<cfgPresent, bootPresent, isoPresent, casperPresent, read_bytes,
          contents, params, pc, rcf, can_continue, result, boot_params,
          events, nvram, menuInvoked, ret>>

files == <<cfgPresent, bootPresent, isoPresent, casperPresent, read_bytes, contents>>

NoStatus == "none"

VariableNames ==
    {"Enterprise_LinuxBootOptions", "Enterprise_LinuxKernelPath",
     "Enterprise_InitRDPath", "Enterprise_BootFolder"}

ReadByteCounts == {0, 64}

\* What every function starts from: nothing shown, nothing called.
Fresh ==
    /\ rcf = NoCall
    /\ can_continue = TRUE
    /\ result = Uninit
    /\ boot_params = Uninit
    /\ events = <<>>
    /\ nvram = [n \in VariableNames |-> Uninit]
    /\ ret = NoStatus

(***************************************************************************)
(* SpecCfg: ReadConfigurationFile applied to every bounded configuration.  *)
(***************************************************************************)
InitCfg ==
    /\ cfgPresent \in BOOLEAN
    /\ bootPresent = TRUE
    /\ isoPresent = TRUE
    /\ casperPresent = FALSE
    /\ read_bytes \in ReadByteCounts
    /\ cfgPresent = FALSE => read_bytes = 0
    /\ contents \in EntrySeqs
    /\ params = [wide |-> <<>>, text |-> ""]
    /\ pc = "cfg_call"
    /\ menuInvoked = FALSE
    /\ Fresh

\* The call runs to its return.
Cfg_Read ==
    /\ pc = "cfg_call"
    /\ rcf' = ReadConfigurationFile(contents, read_bytes)
    /\ events' = events \o rcf'.messages
    /\ pc' = "cfg_returned"
    /\ UNCHANGED <<files, params, can_continue, result, boot_params,
                   nvram, menuInvoked, ret>>

\* read_bytes = 0 leaves `contents` unassigned: parsing through it may fault.
Cfg_Fault ==
    /\ pc = "cfg_call"
    /\ read_bytes = 0
    /\ events' = Append(events, Msg("couldn't read configuration", ""))
    /\ pc' = "crashed"
    /\ UNCHANGED <<files, params, rcf, can_continue, result, boot_params,
                   nvram, menuInvoked, ret>>

NextCfg == Cfg_Read \/ Cfg_Fault

SpecCfg == InitCfg /\ [][NextCfg]_vars

(***************************************************************************)
(* Properties of ReadConfigurationFile and the catalog (SpecCfg).          *)
(***************************************************************************)
Returned == pc = "cfg_returned"

Succeeded == Returned /\ rcf.ret # NULL

KnownFamilies == {"Debian", "Ubuntu", "Mint"}

\* The catalog as the specification tabulates it.
Tabulated(name) ==
    IF name = "Debian"
    THEN [kernel_path |-> "/live/vmlinuz", initrd_path |-> "/live/initrd.img",
          boot_folder |-> "live"]
    ELSE [kernel_path |-> "/casper/vmlinuz", initrd_path |-> "/casper/initrd.lz",
          boot_folder |-> "casper"]

\* Index of the last of the first n entries whose key is in keys; 0 if none.
LastWriter(keys, n) ==
    LET W == {i \in 1..n : contents[i].key \in keys}
    IN  IF W = {} THEN 0 ELSE CHOOSE i \in W : \A j \in W : j <= i

\* What the last writer of a field among the first n entries wrote.
LastWritten(field, own, n) ==
    LET i == LastWriter({"family", own}, n)
    IN  IF i = 0 THEN NULL
        ELSE IF contents[i].key = "family" THEN Tabulated(contents[i].value)[field]
        ELSE contents[i].value

\* C1 (as claimed): whenever ReadConfigurationFile returns a BootOption, its
\* kernel_path and initrd_path are both set and non-empty.  Stated for files
\* that were read, so that it does not rest on an unread buffer.
C1_NonEmptyInvariant ==
    (Succeeded /\ read_bytes # 0) =>
        /\ IsString(rcf.boot_options.kernel_path)
        /\ rcf.boot_options.kernel_path # ""
        /\ IsString(rcf.boot_options.initrd_path)
        /\ rcf.boot_options.initrd_path # ""

\* C4: on a successful build each of kernel_path, initrd_path and boot_folder
\* holds what the last entry writing that field wrote (family writes all three
\* from the catalog; kernel, initrd, root write their own field verbatim), so
\* family=Ubuntu then kernel=/custom/vmlinuz keeps the catalog initrd.
C4_OverrideOrdering ==
    Succeeded =>
        /\ rcf.boot_options.kernel_path
              = LastWritten("kernel_path", "kernel", Len(contents))
        /\ rcf.boot_options.initrd_path
              = LastWritten("initrd_path", "initrd", Len(contents))
        /\ rcf.boot_options.boot_folder
              = LastWritten("boot_folder", "root", Len(contents))
        /\ contents = << [key |-> "family", value |-> "Ubuntu"],
                         [key |-> "kernel", value |-> "/custom/vmlinuz"] >>
              => /\ rcf.boot_options.kernel_path = "/custom/vmlinuz"
                 /\ rcf.boot_options.initrd_path = "/casper/initrd.lz"

C4_Witness ==
    /\ Succeeded
    /\ read_bytes # 0
    /\ contents = << [key |-> "family", value |-> "Ubuntu"],
                     [key |-> "kernel", value |-> "/custom/vmlinuz"] >>
    /\ rcf.boot_options.kernel_path = "/custom/vmlinuz"

\* Indices of the family entries naming no catalogued distribution.
BadFamilies ==
    {i \in 1..Len(contents) :
        contents[i].key = "family" /\ contents[i].value \notin KnownFamilies}

FirstBadFamily == CHOOSE i \in BadFamilies : \A j \in BadFamilies : i <= j

\* C5: once a family entry outside {Debian, Ubuntu, Mint} is met, the fold
\* stops at that entry (nothing after it is consumed, written or diagnosed),
\* the record is released and NULL is returned, whatever the entries before
\* and after it are.
C5_BadFamilyAborts ==
    (Returned /\ BadFamilies # {}) =>
        /\ rcf.ret = NULL
        /\ rcf.released
        /\ rcf.position = FirstBadFamily
        /\ rcf.messages # <<>>
        /\ rcf.messages[Len(rcf.messages)]
              = Msg("not supported", contents[FirstBadFamily].value)
        /\ rcf.boot_options.kernel_path = ""
        /\ rcf.boot_options.initrd_path = ""

C5_Witness ==
    /\ Returned
    /\ Len(contents) = 2
    /\ contents[1] = [key |-> "family", value |-> "Arch"]
    /\ contents[2] = [key |-> "kernel", value |-> "/custom/vmlinuz"]
    /\ rcf.ret = NULL
    /\ rcf.position = 1

\* The value of the local boot_folder before entry n is applied: the folder of
\* the last family entry before it, unassigned if there is none.
FolderBefore(n) ==
    LET i == LastWriter({"family"}, n - 1)
    IN  IF i = 0 THEN Uninit ELSE Tabulated(contents[i].value).boot_folder

C8_NoConfigurationFails ==
    (Returned /\ read_bytes = 0) => (rcf.ret = NULL /\ rcf.position = 0)

(***************************************************************************)
(* SpecMain: efi_main, from entry to its return.                           *)
(***************************************************************************)
InitMain ==
    /\ cfgPresent \in BOOLEAN
    /\ bootPresent \in BOOLEAN
    /\ isoPresent \in BOOLEAN
    /\ casperPresent \in BOOLEAN
    /\ read_bytes \in ReadByteCounts
    /\ cfgPresent = FALSE => read_bytes = 0
    /\ contents \in EntrySeqs
    /\ params = [wide |-> <<>>, text |-> ""]
    /\ pc = "main_entry"
    /\ menuInvoked = FALSE
    /\ Fresh

\* Lines 47-74: library set-up, the loaded-image protocol, the root directory.
Main_Setup ==
    /\ pc = "main_entry"
    /\ \/ /\ events' = events \o << Msg("could not find loaded image", ""),
                                    Call("Stall", "") >>
          /\ ret' = EFI_ERROR_STATUS
          /\ pc' = "main_setup_failed"
       \/ /\ events' = events \o << Msg("Unable to open root directory", ""),
                                    Call("Stall", "") >>
          /\ ret' = EFI_LOAD_ERROR
          /\ pc' = "main_setup_failed"
       \/ /\ events' = events \o << Call("ClearScreen", ""), Msg("banner", "") >>
          /\ ret' = ret
          /\ pc' = "main_preflight"
    /\ UNCHANGED <<files, params, rcf, can_continue, result, boot_params,
                   nvram, menuInvoked>>

\* Mutant: only the first missing resource is reported.
PreflightMessagesFirstOnly(r) ==
    IF ~cfgPresent THEN << Msg("can't find configuration file", "") >>
    ELSE r.messages
         \o (IF ~bootPresent THEN << Msg("can't find GRUB bootloader", "") >>
             ELSE IF ~isoPresent THEN << Msg("can't find ISO file to boot", "") >>
             ELSE <<>>)

\* The three existence checks and their messages, given the builder's outcome.
PreflightMessages(r) ==
    (IF cfgPresent THEN r.messages
     ELSE << Msg("can't find configuration file", "") >>)
    \o (IF bootPresent THEN <<>> ELSE << Msg("can't find GRUB bootloader", "") >>)
    \o (IF isoPresent THEN <<>> ELSE << Msg("can't find ISO file to boot", "") >>)

\* can_continue after line 97.
PreflightVerdict(r) ==
    /\ (cfgPresent => r.ret # NULL)
    /\ bootPresent
    /\ isoPresent

\* Lines 76-97.
Main_Preflight ==
    /\ pc = "main_preflight"
    /\ LET r == IF cfgPresent THEN ReadConfigurationFile(contents, read_bytes)
                ELSE rcf
       IN  /\ rcf' = r
           /\ result' = IF cfgPresent THEN r.ret ELSE result
           /\ can_continue' = PreflightVerdict(r)
           /\ events' = events \o PreflightMessages(r)
    /\ pc' = "main_persistence"
    /\ UNCHANGED <<files, params, boot_params, nvram, menuInvoked, ret>>

\* Line 83 with read_bytes = 0: the parser may fault on the unread buffer.
Main_PreflightFault ==
    /\ pc = "main_preflight"
    /\ cfgPresent
    /\ read_bytes = 0
    /\ events' = Append(events, Msg("couldn't read configuration", ""))
    /\ pc' = "crashed"
    /\ UNCHANGED <<files, params, rcf, can_continue, result, boot_params,
                   nvram, menuInvoked, ret>>

\* result->distro_family can be read: result points to a record whose
\* distro_family points to a string.
FamilyReadable == result = "boot_options" /\ IsString(rcf.boot_options.distro_family)

PersistenceNotice == Msg("Found a persistence file", "")

\* Lines 101-106.  The conjunction is evaluated left to right: the file check,
\* then strcmpa on result->distro_family, then can_continue.  When the pointer
\* cannot be read the comparison yields anything.
Main_PersistenceCheck ==
    /\ pc = "main_persistence"
    /\ \/ /\ ~casperPresent
          /\ events' = events
       \/ /\ casperPresent
          /\ FamilyReadable
          /\ events' = IF rcf.boot_options.distro_family = "Ubuntu" /\ can_continue
                       THEN Append(events, PersistenceNotice)
                       ELSE events
       \/ /\ casperPresent
          /\ ~FamilyReadable
          /\ \E equal \in BOOLEAN :
                events' = IF equal /\ can_continue
                          THEN Append(events, PersistenceNotice)
                          ELSE events
    /\ pc' = "main_menu"
    /\ UNCHANGED <<files, params, rcf, can_continue, result, boot_params,
                   nvram, menuInvoked, ret>>

\* Line 102 through an unassigned or null pointer may fault.
Main_PersistenceFault ==
    /\ pc = "main_persistence"
    /\ casperPresent
    /\ ~FamilyReadable
    /\ pc' = "crashed"
    /\ UNCHANGED <<files, params, rcf, can_continue, result, boot_params,
                   events, nvram, menuInvoked, ret>>

\* Lines 109-117.
Main_Finish ==
    /\ pc = "main_menu"
    /\ IF can_continue
       THEN /\ menuInvoked' = TRUE
            /\ events' = Append(events, Call("DisplayMenu", ""))
            /\ ret' = EFI_SUCCESS
       ELSE /\ menuInvoked' = menuInvoked
            /\ events' = events \o << Msg("Cannot continue", ""), Call("Stall", "") >>
            /\ ret' = EFI_LOAD_ERROR
    /\ pc' = "main_returned"
    /\ UNCHANGED <<files, params, rcf, can_continue, result, boot_params, nvram>>

NextMain ==
    \/ Main_Setup
    \/ Main_Preflight
    \/ Main_PreflightFault
    \/ Main_PersistenceCheck
    \/ Main_PersistenceFault
    \/ Main_Finish

SpecMain == InitMain /\ [][NextMain]_vars

\* efi_main has run its checks and is over, by returning or by faulting.
MainOver == pc \in {"main_returned", "crashed"}

\* C2 (as claimed): the menu is opened only if the configuration file, boot.efi
\* and boot.iso are all present; with any of them absent the menu is never
\* opened and efi_main returns EFI_LOAD_ERROR.  Stated for volumes without
\* \casper-rw, where line 102 is not evaluated.
C2_PreflightGatesMenu ==
    ~casperPresent =>
        /\ menuInvoked => (cfgPresent /\ bootPresent /\ isoPresent)
        /\ (pc = "main_returned" /\ ~(cfgPresent /\ bootPresent /\ isoPresent))
              => (~menuInvoked /\ ret = EFI_LOAD_ERROR)

\* C3 (as claimed): with boot.iso absent, whatever else is on the volume, the
\* menu is never opened and efi_main returns a load-error status.  Stated for
\* a volume that has no configuration file either.
C3_PayloadGatesMenu ==
    (~isoPresent /\ ~cfgPresent) =>
        /\ ~menuInvoked
        /\ MainOver => ret = EFI_LOAD_ERROR

(***************************************************************************)
(* SpecBoot: BootLinuxWithOptions, called from the menu.                   *)
(***************************************************************************)
\* The CHAR8 a CHAR16 code unit narrows to (the letters the model uses).
Narrow(unit) ==
    LET byte == unit % 256
    IN  IF byte = 113 THEN "q"
        ELSE IF byte = 114 THEN "r"
        ELSE IF byte = 111 THEN "o"
        ELSE "?"

\* utils.c: the CHAR8 string of the first `length` code units of `wide`.
RECURSIVE UTF16toASCII(_, _)
UTF16toASCII(wide, length) ==
    IF length = 0 \/ wide = <<>> THEN ""
    ELSE Narrow(Head(wide)) \o UTF16toASCII(Tail(wide), length - 1)

\* utils.c: efi_set_variable stores the value when the firmware accepts it.
efi_set_variable(store, name, value, status) ==
    IF status = EFI_SUCCESS THEN [store EXCEPT ![name] = value] ELSE store

Statuses == {EFI_SUCCESS, EFI_ERROR_STATUS}

\* The menu is open: efi_main let the run continue on this volume.
InitBoot ==
    /\ cfgPresent \in BOOLEAN
    /\ bootPresent = TRUE
    /\ isoPresent = TRUE
    /\ casperPresent = FALSE
    /\ read_bytes \in ReadByteCounts
    /\ cfgPresent = FALSE => read_bytes = 0
    /\ contents \in EntrySeqs
    /\ read_bytes # 0 => ReadConfigurationFile(contents, read_bytes).ret # NULL
    /\ params \in ParamChoices
    /\ pc = "boot_entry"
    /\ menuInvoked = TRUE
    /\ Fresh

\* Mutant: a failed write ends the call with EFI_LOAD_ERROR.
WriteVariableChecksStatus(name, ptr, from, to) ==
    /\ pc = from
    /\ \E status \in Statuses :
          LET value == IF IsString(ptr) THEN ptr ELSE Garbage
          IN  /\ events' = Append(events,
                     Ev("SetVariable", "grub_variable_guid", name, value, status))
              /\ nvram' = efi_set_variable(nvram, name, value, status)
              /\ pc' = IF status = EFI_SUCCESS THEN to ELSE "boot_returned"
              /\ ret' = IF status = EFI_SUCCESS THEN ret ELSE EFI_LOAD_ERROR
    /\ UNCHANGED <<files, params, rcf, can_continue, result, boot_params,
                   menuInvoked>>

\* One efi_set_variable call on the string behind ptr, its status ignored.
\* A pointer that is no string makes strlena read whatever is there.
WriteVariable(name, ptr, from, to) ==
    /\ pc = from
    /\ \E status \in Statuses :
          LET value == IF IsString(ptr) THEN ptr ELSE Garbage
          IN  /\ events' = Append(events,
                     Ev("SetVariable", "grub_variable_guid", name, value, status))
              /\ nvram' = efi_set_variable(nvram, name, value, status)
    /\ pc' = to
    /\ UNCHANGED <<files, params, rcf, can_continue, result, boot_params,
                   menuInvoked, ret>>

\* Lines 125-127.
Boot_SetParams ==
    WriteVariable("Enterprise_LinuxBootOptions",
                  UTF16toASCII(params.wide, Len(params.wide) + 1),
                  "boot_entry", "boot_read_config")

\* Lines 129-133.
Boot_ReadConfig ==
    /\ pc = "boot_read_config"
    /\ rcf' = ReadConfigurationFile(contents, read_bytes)
    /\ boot_params' = rcf'.ret
    /\ IF rcf'.ret = NULL
       THEN /\ events' = events \o rcf'.messages
                           \o << Msg("invalid distribution name specified", "") >>
            /\ ret' = EFI_LOAD_ERROR
            /\ pc' = "boot_returned"
       ELSE /\ events' = events \o rcf'.messages
            /\ ret' = ret
            /\ pc' = "boot_write_kernel"
    /\ UNCHANGED <<files, params, can_continue, result, nvram, menuInvoked>>

\* Line 129 with read_bytes = 0: the parser may fault on the unread buffer.
Boot_ReadConfigFault ==
    /\ pc = "boot_read_config"
    /\ read_bytes = 0
    /\ events' = Append(events, Msg("couldn't read configuration", ""))
    /\ pc' = "crashed"
    /\ UNCHANGED <<files, params, rcf, can_continue, result, boot_params,
                   nvram, menuInvoked, ret>>

\* Lines 135, 138-139.
Boot_WriteKernel ==
    WriteVariable("Enterprise_LinuxKernelPath", rcf.boot_options.kernel_path,
                  "boot_write_kernel", "boot_write_initrd")

\* Lines 136, 140-141.
Boot_WriteInitrd ==
    WriteVariable("Enterprise_InitRDPath", rcf.boot_options.initrd_path,
                  "boot_write_initrd", "boot_write_folder")

\* Lines 137, 142-143.
Boot_WriteFolder ==
    WriteVariable("Enterprise_BootFolder", rcf.boot_options.boot_folder,
                  "boot_write_folder", "boot_load")

\* strlena on a null field (lines 139, 141, 143) may fault.
Boot_WriteFault ==
    /\ \/ pc = "boot_write_kernel" /\ ~IsString(rcf.boot_options.kernel_path)
       \/ pc = "boot_write_initrd" /\ ~IsString(rcf.boot_options.initrd_path)
       \/ pc = "boot_write_folder" /\ ~IsString(rcf.boot_options.boot_folder)
    /\ pc' = "crashed"
    /\ UNCHANGED <<files, params, rcf, can_continue, result, boot_params,
                   events, nvram, menuInvoked, ret>>

\* Mutant: the device path is not released on failure.
FailureReportKeepsPath(what, status) ==
    << Msg(what, ""), Msg("%r", status), Call("Stall", "") >>

\* What follows a failed LoadImage or StartImage: report, pause, release.
FailureReport(what, status) ==
    << Msg(what, ""), Msg("%r", status), Call("Stall", ""), Call("FreePool(path)", "") >>

\* Mutant: a failed LoadImage is reported but the function goes on to start.
Boot_LoadImageFallsThrough ==
    /\ pc = "boot_load"
    /\ \E status \in Statuses :
          IF status # EFI_SUCCESS
          THEN /\ events' = events
                    \o << Call("FreePool(boot_params)", ""), Call("FileDevicePath", ""),
                          Call("LoadImage", status) >>
                    \o FailureReport("Error loading image: ", status)
               /\ ret' = ret
               /\ pc' = "boot_image_loaded"
          ELSE /\ events' = events
                    \o << Call("FreePool(boot_params)", ""), Call("FileDevicePath", ""),
                          Call("LoadImage", status) >>
               /\ ret' = ret
               /\ pc' = "boot_image_loaded"
    /\ UNCHANGED <<files, params, rcf, can_continue, result, boot_params,
                   nvram, menuInvoked>>

\* Lines 145-157.
Boot_LoadImage ==
    /\ pc = "boot_load"
    /\ \E status \in Statuses :
          IF status # EFI_SUCCESS
          THEN /\ events' = events
                    \o << Call("FreePool(boot_params)", ""), Call("FileDevicePath", ""),
                          Call("LoadImage", status) >>
                    \o FailureReport("Error loading image: ", status)
               /\ ret' = EFI_LOAD_ERROR
               /\ pc' = "boot_returned"
          ELSE /\ events' = events
                    \o << Call("FreePool(boot_params)", ""), Call("FileDevicePath", ""),
                          Call("LoadImage", status) >>
               /\ ret' = ret
               /\ pc' = "boot_image_loaded"
    /\ UNCHANGED <<files, params, rcf, can_continue, result, boot_params,
                   nvram, menuInvoked>>

\* Mutant: whatever StartImage returns is treated as a failure.
Boot_StartImageAlwaysFails ==
    /\ pc = "boot_image_loaded"
    /\ \E status \in Statuses :
          /\ events' = events
               \o << Call("ClearScreen", ""), Call("StartImage", status) >>
               \o FailureReport("Error starting image: ", status)
          /\ ret' = EFI_LOAD_ERROR
          /\ pc' = "boot_returned"
    /\ UNCHANGED <<files, params, rcf, can_continue, result, boot_params,
                   nvram, menuInvoked>>

\* Lines 159-171, StartImage returning: with an error, or because the started
\* image exited with EFI_SUCCESS.
Boot_StartImage ==
    /\ pc = "boot_image_loaded"
    /\ \E status \in Statuses :
          IF status # EFI_SUCCESS
          THEN /\ events' = events
                    \o << Call("ClearScreen", ""), Call("StartImage", status) >>
                    \o FailureReport("Error starting image: ", status)
               /\ ret' = EFI_LOAD_ERROR
               /\ pc' = "boot_returned"
          ELSE /\ events' = events
                    \o << Call("ClearScreen", ""), Call("StartImage", status) >>
               /\ ret' = EFI_SUCCESS
               /\ pc' = "boot_returned"
    /\ UNCHANGED <<files, params, rcf, can_continue, result, boot_params,
                   nvram, menuInvoked>>

\* Lines 160-161, StartImage not returning: the started image keeps control.
Boot_HandOff ==
    /\ pc = "boot_image_loaded"
    /\ events' = events
          \o << Call("ClearScreen", ""), Call("StartImage", "no return") >>
    /\ pc' = "handed_off"
    /\ UNCHANGED <<files, params, rcf, can_continue, result, boot_params,
                   nvram, menuInvoked, ret>>

NextBoot ==
    \/ Boot_SetParams
    \/ Boot_ReadConfig
    \/ Boot_ReadConfigFault
    \/ Boot_WriteKernel
    \/ Boot_WriteInitrd
    \/ Boot_WriteFolder
    \/ Boot_WriteFault
    \/ Boot_LoadImage
    \/ Boot_StartImage
    \/ Boot_HandOff

SpecBoot == InitBoot /\ [][NextBoot]_vars

(***************************************************************************)
(* Properties of BootLinuxWithOptions (SpecBoot).                          *)
(***************************************************************************)
Positions(op) == {i \in 1..Len(events) : events[i].op = op}

LoadCalls == Positions("LoadImage")

StartCalls == Positions("StartImage")

IsSetVariable(e) == e.op = "SetVariable"

Writes == SelectSeq(events, IsSetVariable)

BootOver == pc \in {"boot_returned", "handed_off", "crashed"}

\* The four hand-off writes the claim describes, for the resolved option.
ExpectedWrites ==
    << Ev("SetVariable", "grub_variable_guid", "Enterprise_LinuxBootOptions",
          params.text, Writes[1].status),
       Ev("SetVariable", "grub_variable_guid", "Enterprise_LinuxKernelPath",
          rcf.boot_options.kernel_path, Writes[2].status),
       Ev("SetVariable", "grub_variable_guid", "Enterprise_InitRDPath",
          rcf.boot_options.initrd_path, Writes[3].status),
       Ev("SetVariable", "grub_variable_guid", "Enterprise_BootFolder",
          rcf.boot_options.boot_folder, Writes[4].status) >>

\* C7 (as claimed): whenever resolution succeeds, exactly four variables are
\* written under the one GUID - parameters, kernel path, initrd path, boot
\* folder - with the user's parameter string and the BootOption's three fields
\* as values, all before LoadImage is called.  Stated for a configuration file
\* that was read.
C7_HandOffBeforeLoad ==
    (boot_params = "boot_options" /\ read_bytes # 0 /\ (LoadCalls # {} \/ BootOver)) =>
        /\ Len(Writes) = 4
        /\ Writes = ExpectedWrites
        /\ \A i \in Positions("SetVariable") : \A j \in LoadCalls : i < j

\* The ChainLoader state, read off the calls made so far.
ChainState ==
    IF StartCalls # {}
    THEN IF \E i \in StartCalls : events[i].status = EFI_ERROR_STATUS
         THEN "StartFailed" ELSE "Started"
    ELSE IF LoadCalls = {} THEN "Idle"
    ELSE IF \E i \in LoadCalls : events[i].status # EFI_SUCCESS
         THEN "LoadFailed" ELSE "ImageLoaded"

ChainCallsOrdered ==
    /\ Cardinality(LoadCalls) <= 1
    /\ Cardinality(StartCalls) <= 1
    /\ \A k \in StartCalls :
          \E i \in LoadCalls :
             /\ i < k
             /\ events[i].status = EFI_SUCCESS
             /\ \E j \in Positions("ClearScreen") : i < j /\ j < k
    /\ ChainState \in {"LoadFailed", "StartFailed"}
          => (pc = "boot_returned" /\ ret = EFI_LOAD_ERROR)

ChainAdvances ==
    ChainState' # ChainState =>
        <<ChainState, ChainState'>> \in
            { <<"Idle", "ImageLoaded">>, <<"Idle", "LoadFailed">>,
              <<"ImageLoaded", "Started">>, <<"ImageLoaded", "StartFailed">> }

\* C9: the chain-load states only advance Idle -> ImageLoaded -> Started, or
\* into LoadFailed / StartFailed, which nothing leaves and which end the call
\* with EFI_LOAD_ERROR; StartImage is called only after a successful LoadImage
\* with the screen cleared in between; each is called at most once.
C9_ChainLoadStateMachine == [](ChainCallsOrdered) /\ [][ChainAdvances]_vars

C9_Witness ==
    /\ ChainState = "StartFailed"
    /\ pc = "boot_returned"
    /\ ret = EFI_LOAD_ERROR
    /\ Cardinality(LoadCalls) = 1

StartReported == \E i \in 1..Len(events) : events[i] = Msg("Error starting image: ", "")

StartReturned == pc = "boot_returned" /\ StartCalls # {}

\* The configuration was read and gave all three fields.
FullyResolved ==
    /\ read_bytes # 0
    /\ boot_params = "boot_options"
    /\ IsString(rcf.boot_options.kernel_path)
    /\ IsString(rcf.boot_options.initrd_path)
    /\ IsString(rcf.boot_options.boot_folder)

\* C10 (as claimed): whenever StartImage returns, with an error or because the
\* image exited with success, the outcome is reported and the call returns a
\* failure status, never EFI_SUCCESS.  Stated for a fully resolved
\* configuration.
C10_ReturnFromStartedFails ==
    (StartReturned /\ FullyResolved) => (StartReported /\ ret = EFI_LOAD_ERROR)

\* C10 (amended): when StartImage returns an error the outcome is reported and
\* EFI_LOAD_ERROR is returned; when the image exited with EFI_SUCCESS nothing
\* is reported and EFI_SUCCESS is returned.
C10_StartImageReturn ==
    StartReturned =>
        IF \E i \in StartCalls : events[i].status # EFI_SUCCESS
        THEN StartReported /\ ret = EFI_LOAD_ERROR
        ELSE ~StartReported /\ ret = EFI_SUCCESS

C10_Witness ==
    /\ StartReturned
    /\ FullyResolved
    /\ \A i \in StartCalls : events[i].status = EFI_SUCCESS
    /\ ret = EFI_SUCCESS

\* A path field that is set and not empty.
NonEmptyPath(ptr) == IsString(ptr) /\ ptr # ""

PathVariables == {"Enterprise_LinuxKernelPath", "Enterprise_InitRDPath"}

OptionVariables == PathVariables \cup {"Enterprise_BootFolder"}

\* C11 (as claimed): when ReadConfigurationFile fails inside
\* BootLinuxWithOptions none of the kernel-path, initrd-path and boot-folder
\* variables is written, LoadImage and StartImage are not called and
\* EFI_LOAD_ERROR is returned; and never is the kernel-path or initrd-path
\* variable written with an empty value, nor LoadImage called for a BootOption
\* whose kernel_path or initrd_path is empty.  The second half is stated for
\* a configuration file that was read.
C11_FailedResolutionNeverUsed ==
    /\ boot_params = NULL =>
          /\ \A i \in Positions("SetVariable") : events[i].name \notin OptionVariables
          /\ LoadCalls = {} /\ StartCalls = {}
          /\ pc = "boot_returned" /\ ret = EFI_LOAD_ERROR
    /\ read_bytes # 0 =>
          /\ \A i \in Positions("SetVariable") :
                events[i].name \in PathVariables => NonEmptyPath(events[i].value)
          /\ LoadCalls # {} =>
                /\ NonEmptyPath(rcf.boot_options.kernel_path)
                /\ NonEmptyPath(rcf.boot_options.initrd_path)

\* The position an efi_set_variable call made at position p leads to.
AfterWrite(p) ==
    CASE p = "boot_entry" -> "boot_read_config"
      [] p = "boot_write_kernel" -> "boot_write_initrd"
      [] p = "boot_write_initrd" -> "boot_write_folder"
      [] p = "boot_write_folder" -> "boot_load"
      [] OTHER -> "none"

WriteStep == Len(Writes') = Len(Writes) + 1

ChainFailed ==
    \/ \E i \in LoadCalls : events[i].status # EFI_SUCCESS
    \/ \E i \in StartCalls : events[i].status = EFI_ERROR_STATUS

WritesNeverDecide ==
    /\ (pc = "boot_load" \/ LoadCalls # {}) => Len(Writes) = 4
    /\ (pc \in {"boot_returned", "handed_off"} /\ boot_params = "boot_options")
          => (Len(Writes) = 4 /\ LoadCalls # {})
    /\ pc = "boot_returned" =>
          ret = IF boot_params = NULL \/ ChainFailed THEN EFI_LOAD_ERROR
                ELSE EFI_SUCCESS

WriteStepGoesOn == WriteStep => (pc' = AfterWrite(pc) /\ ret' = ret)

\* C12: whatever status an efi_set_variable call returns, the call goes on to
\* the same next step with the return status untouched; a call that ends
\* after resolution has made all four writes and called LoadImage, and what it
\* returns is decided by the resolution and by LoadImage / StartImage alone.
C12_WritesFireAndForget == [](WritesNeverDecide) /\ [][WriteStepGoesOn]_vars

C12_Witness ==
    /\ Len(Writes) = 4
    /\ \A i \in 1..4 : Writes[i].status = EFI_ERROR_STATUS
    /\ LoadCalls # {}
    /\ pc = "boot_returned"
    /\ ret = EFI_SUCCESS

(***************************************************************************)
(* Further properties of efi_main (SpecMain) and of the builder (SpecCfg). *)
(***************************************************************************)
\* How many times message m was shown.
Shown(m) == Cardinality({i \in 1..Len(events) : events[i] = Msg(m, "")})

Once(missing) == IF missing THEN 1 ELSE 0

\* The three existence checks have run.
PreflightDone == pc \in {"main_persistence", "main_menu", "main_returned"}

\* C13: once the three existence checks have run, each missing resource
\* (configuration file, boot.efi, boot.iso) has been reported exactly once and
\* no present one has been reported, for every subset of missing resources.
C13_EachMissingReported ==
    PreflightDone =>
        /\ Shown("can't find configuration file") = Once(~cfgPresent)
        /\ Shown("can't find GRUB bootloader") = Once(~bootPresent)
        /\ Shown("can't find ISO file to boot") = Once(~isoPresent)

C13_Witness ==
    /\ PreflightDone
    /\ ~cfgPresent /\ ~bootPresent /\ ~isoPresent
    /\ Shown("can't find configuration file") = 1
    /\ Shown("can't find GRUB bootloader") = 1
    /\ Shown("can't find ISO file to boot") = 1

RecognizedKeys == {"family", "kernel", "initrd", "root"}

\* The entry list without its i-th entry.
Without(i) == [j \in 1..(Len(contents) - 1) |-> IF j < i THEN contents[j] ELSE contents[j + 1]]

Diagnostic(key) == Msg("unrecognized option", key)

IsDiagnostic(e) == e.op = "Print" /\ e.name = "unrecognized option"

\* The messages without the k-th one.
Dropped(msgs, k) == [j \in 1..(Len(msgs) - 1) |-> IF j < k THEN msgs[j] ELSE msgs[j + 1]]

\* C14: an entry whose key is none of family, kernel, initrd, root (compared
\* case-sensitively) changes no field and does not abort the fold: the call
\* returns what it returns for the list without that entry, and, when the
\* entry is reached, prints exactly one "unrecognized option" message more.
C14_UnrecognizedKeysIgnored ==
    Returned =>
        /\ \A i \in 1..Len(contents) :
              contents[i].key \notin RecognizedKeys =>
                 LET r == ReadConfigurationFile(Without(i), read_bytes)
                 IN  /\ rcf.ret = r.ret
                     /\ rcf.boot_options = r.boot_options
                     /\ rcf.released = r.released
                     /\ i <= rcf.position =>
                           /\ rcf.position = r.position + 1
                           /\ \E k \in 1..Len(rcf.messages) :
                                 /\ rcf.messages[k] = Diagnostic(contents[i].key)
                                 /\ Dropped(rcf.messages, k) = r.messages
                     /\ i > rcf.position => rcf.messages = r.messages
        /\ Len(SelectSeq(rcf.messages, IsDiagnostic))
              = Cardinality({i \in 1..rcf.position :
                                contents[i].key \notin RecognizedKeys})

C14_Witness ==
    /\ Returned
    /\ read_bytes # 0
    /\ Len(contents) = 2
    /\ contents[1] = [key |-> "Family", value |-> "x"]
    /\ contents[2] = [key |-> "family", value |-> "Ubuntu"]
    /\ rcf.ret = "boot_options"
    /\ rcf.boot_options.kernel_path = "/casper/vmlinuz"
    /\ rcf.messages = << Diagnostic("Family") >>

(***************************************************************************)
(* Resource handling and the hand-off as a whole.                          *)
(***************************************************************************)
\* How many times the LinuxBootOption record of this call was released: by
\* ReadConfigurationFile on its failure path, by line 145 otherwise.
RecordReleases ==
    (IF rcf.released THEN 1 ELSE 0)
    + Cardinality(Positions("FreePool(boot_params)"))

\* The failing LoadImage / StartImage call is followed, in this order, by the
\* message, the status, the pause and the release of the device path.
FailureHandled(call, what) ==
    LET n == Len(events)
    IN  /\ n >= 5
        /\ events[n - 4].op = call
        /\ events[n - 4].status # EFI_SUCCESS
        /\ events[n - 3] = Msg(what, "")
        /\ events[n - 2] = Msg("%r", events[n - 4].status)
        /\ events[n - 1] = Call("Stall", "")
        /\ events[n] = Call("FreePool(path)", "")
        /\ Cardinality(Positions("FreePool(path)")) = 1
        /\ pc = "boot_returned"
        /\ ret = EFI_LOAD_ERROR

\* C15: after a failed LoadImage and after a failed StartImage the status is
\* reported, then the call pauses, then releases the device path exactly once,
\* then returns EFI_LOAD_ERROR; the BootOption record is released at most once,
\* exactly once in every call that returns or hands off, and no field of it is
\* read for a write after the release.
C15_ChainFailureHandling ==
    /\ ChainState = "LoadFailed" => FailureHandled("LoadImage", "Error loading image: ")
    /\ ChainState = "StartFailed" => FailureHandled("StartImage", "Error starting image: ")
    /\ RecordReleases <= 1
    /\ pc \in {"boot_returned", "handed_off"} => RecordReleases = 1
    /\ \A i \in Positions("SetVariable") :
          events[i].name \in OptionVariables =>
             /\ ~rcf.released
             /\ \A j \in Positions("FreePool(boot_params)") : i < j

C15_Witness ==
    /\ ChainState = "StartFailed"
    /\ FullyResolved
    /\ RecordReleases = 1
    /\ events[Len(events)] = Call("FreePool(path)", "")

\* Line 102 has been evaluated past the file check.
FamilyWasRead == casperPresent /\ pc \in {"main_menu", "main_returned"}

\* C16 (as claimed): efi_main reads result->distro_family only when result is
\* a valid BootOption with its family set: never with the configuration file
\* absent, never after ReadConfigurationFile failed, never for a configuration
\* without a family entry.
C16_FamilyReadOnlyWhenValid == FamilyWasRead => FamilyReadable

\* C17 (as claimed): whenever BootLinuxWithOptions reaches the persistence
\* writes, kernel_path, initrd_path and boot_folder of the BootOption are all
\* defined strings.  Stated for a configuration file that was read.
C17_FieldsDefinedAtWrites ==
    (pc \in {"boot_write_kernel", "boot_write_initrd", "boot_write_folder"}
     /\ read_bytes # 0) =>
        /\ IsString(rcf.boot_options.kernel_path)
        /\ IsString(rcf.boot_options.initrd_path)
        /\ IsString(rcf.boot_options.boot_folder)

\* C18 (as claimed): after any BootLinuxWithOptions call either all four
\* hand-off variables have been written or none has; when resolution fails the
\* boot-parameter variable has not been written either.
C18_HandOffAllOrNothing ==
    pc \in {"boot_returned", "handed_off"} =>
        /\ Len(Writes) \in {0, 4}
        /\ boot_params = NULL => Writes = <<>>

====
